---------------------------- MODULE Spec2Model ----------------------------
(***************************************************************************)
(* Model of src/configs/time.ts of boltwall: the time-based caveat         *)
(* (getTimeCaveat), the invoice description (getTimedInvoiceDescription)   *)
(* and the configuration bundle TIME_CAVEAT_CONFIGS.                       *)
(*                                                                         *)
(* JavaScript values are tagged records.  A JavaScript string is the       *)
(* sequence of its pieces; a numeric string is the sequence of its         *)
(* characters.  A finite number is the exact fraction n/d in lowest terms  *)
(* (d > 0); NaN and the infinities are values of their own.  On the        *)
(* numbers of this model the IEEE-754 double results of the source's       *)
(* arithmetic are these exact values.                                      *)
(***************************************************************************)
EXTENDS Integers, Sequences, FiniteSets, TLC

VARIABLES
    clock,      \* the value Date.now() returns, in milliseconds
    last,       \* the last completed call: its arguments, clock read and result
    reqs,       \* the request objects shared by the concurrent invocations
    invoices,   \* the invoice objects shared by the concurrent invocations
    calls       \* the concurrent invocations: position, locals, result

vars == <<clock, last, reqs, invoices, calls>>

(***************************************************************************)
(* Bounds of the model.                                                    *)
(***************************************************************************)
MaxClock == 2
MaxLen == 2
MaxAmount == 3
NumCalls == 2

(***************************************************************************)
(* Program constants.                                                      *)
(***************************************************************************)
Radix == 10
MillisPerSecond == 1000
FreeTime == 200
minAmount == 1

(***************************************************************************)
(* JavaScript values.                                                      *)
(***************************************************************************)
Undefined == [t |-> "undefined"]
NaN == [t |-> "NaN"]
Infinity(sign) == [t |-> "Infinity", sign |-> sign]
String(s) == [t |-> "string", s |-> s]

Abs(n) == IF n < 0 THEN -n ELSE n

RECURSIVE GCD(_, _)
GCD(a, b) == IF b = 0 THEN a ELSE GCD(b, a % b)

\* The finite number n/d (d # 0), in lowest terms with a positive denominator.
Number(n, d) ==
    LET g == GCD(Abs(n), Abs(d))
        s == IF d < 0 THEN -1 ELSE 1
    IN  [t |-> "number", n |-> (s * n) \div g, d |-> (s * d) \div g]

Whole(n) == Number(n, 1)

IsNumber(x) == x.t = "number"
IsInteger(x) == IsNumber(x) /\ x.d = 1
IsZero(x) == IsNumber(x) /\ x.n = 0
Sign(x) == IF x.n < 0 THEN -1 ELSE 1

\* ToBoolean: undefined, NaN, 0 and the empty string are falsy.
Truthy(x) ==
    CASE x.t = "undefined" -> FALSE
      [] x.t = "NaN" -> FALSE
      [] x.t = "number" -> x.n # 0
      [] x.t = "string" -> Len(x.s) > 0
      [] OTHER -> TRUE

\* x / y on numbers.
Div(x, y) ==
    CASE x.t = "NaN" \/ y.t = "NaN" -> NaN
      [] x.t = "Infinity" /\ y.t = "Infinity" -> NaN
      [] x.t = "Infinity" -> Infinity(x.sign * Sign(y))
      [] y.t = "Infinity" -> Whole(0)
      [] IsZero(y) -> IF IsZero(x) THEN NaN ELSE Infinity(Sign(x))
      [] OTHER -> Number(x.n * y.d, x.d * y.n)

\* x * y on numbers.
Mul(x, y) ==
    CASE x.t = "NaN" \/ y.t = "NaN" -> NaN
      [] x.t = "Infinity" ->
            IF y.t = "Infinity" THEN Infinity(x.sign * y.sign)
            ELSE IF IsZero(y) THEN NaN ELSE Infinity(x.sign * Sign(y))
      [] y.t = "Infinity" -> IF IsZero(x) THEN NaN ELSE Infinity(y.sign * Sign(x))
      [] OTHER -> Number(x.n * y.n, x.d * y.d)

\* x + y on numbers.
Add(x, y) ==
    CASE x.t = "NaN" \/ y.t = "NaN" -> NaN
      [] x.t = "Infinity" ->
            IF y.t = "Infinity" /\ y.sign # x.sign THEN NaN ELSE x
      [] y.t = "Infinity" -> y
      [] OTHER -> Number(x.n * y.d + y.n * x.d, x.d * y.d)

\* Math.floor
Floor(x) == IF IsNumber(x) THEN Whole(x.n \div x.d) ELSE x

\* x < y and x <= y on numbers: false when either is NaN.
Less(x, y) ==
    CASE x.t = "NaN" \/ y.t = "NaN" -> FALSE
      [] x.t = "Infinity" -> x.sign = -1 /\ ~(y.t = "Infinity" /\ y.sign = -1)
      [] y.t = "Infinity" -> y.sign = 1
      [] OTHER -> x.n * y.d < y.n * x.d

LessEq(x, y) == x.t # "NaN" /\ y.t # "NaN" /\ (x = y \/ Less(x, y))

(***************************************************************************)
(* Strings of digits.                                                      *)
(***************************************************************************)
Digits == <<"0", "1", "2", "3", "4", "5", "6", "7", "8", "9">>
IsDigit(c) == \E i \in 1..Len(Digits) : Digits[i] = c
DigitValue(c) == (CHOOSE i \in 1..Len(Digits) : Digits[i] = c) - 1
IsWhiteSpace(c) == c = " "

RECURSIVE TrimStart(_)
TrimStart(s) ==
    IF Len(s) > 0 /\ IsWhiteSpace(Head(s)) THEN TrimStart(Tail(s)) ELSE s

\* The longest prefix of s made of digits.
RECURSIVE DigitPrefix(_)
DigitPrefix(s) ==
    IF Len(s) > 0 /\ IsDigit(Head(s)) THEN <<Head(s)>> \o DigitPrefix(Tail(s))
    ELSE <<>>

\* The value of a sequence of digits in base Radix, most significant first.
RECURSIVE DigitsValue(_)
DigitsValue(ds) ==
    IF Len(ds) = 0 THEN 0
    ELSE DigitsValue(SubSeq(ds, 1, Len(ds) - 1)) * Radix + DigitValue(ds[Len(ds)])

\* parseInt(s, 10): leading white space is skipped, one sign is read, then
\* the longest run of digits; NaN when that run is empty.
parseInt(s) ==
    LET t == TrimStart(s)
        neg == Len(t) > 0 /\ Head(t) = "-"
        u == IF Len(t) > 0 /\ Head(t) \in {"-", "+"} THEN Tail(t) ELSE t
        ds == DigitPrefix(u)
    IN  IF Len(ds) = 0 THEN NaN
        ELSE Whole((IF neg THEN -1 ELSE 1) * DigitsValue(ds))

\* The decimal digits of a natural number, most significant first.
RECURSIVE NatToString(_)
NatToString(n) ==
    IF n < Radix THEN <<Digits[n + 1]>>
    ELSE NatToString(n \div Radix) \o <<Digits[(n % Radix) + 1]>>

\* Number.prototype.toString() on NaN, the infinities and the integers.
toString(x) ==
    CASE x.t = "NaN" -> <<"N", "a", "N">>
      [] x.t = "Infinity" ->
            (IF x.sign < 0 THEN <<"-">> ELSE <<>>) \o <<"Infinity">>
      [] IsInteger(x) ->
            (IF x.n < 0 THEN <<"-">> ELSE <<>>) \o NatToString(Abs(x.n))

\* The string a template literal puts in place of ${x}.
Interpolate(x) ==
    CASE x.t = "string" -> x.s
      [] x.t = "undefined" -> <<"undefined">>
      [] OTHER -> toString(x)

(***************************************************************************)
(* getTimeCaveat, as a function of its arguments and of the clock value    *)
(* its one Date.now() call returns.                                        *)
(***************************************************************************)
\* const amount = typeof invoice.amount === 'string' ? parseInt(...) : ...
amountOf(invoice) ==
    IF invoice.amount.t = "string" THEN parseInt(invoice.amount.s)
    ELSE invoice.amount

\* req.boltwallConfig && req.boltwallConfig.rate
rateConfigured(req) ==
    Truthy(req.boltwallConfig) /\ Truthy(req.boltwallConfig.rate)

\* Mutants of rateMillis: Math.round in place of Math.floor, and the
\* division turned round (rate / amount).
rateMillisRounded(amount, rate) ==
    Floor(Add(Mul(Div(amount, rate), Whole(MillisPerSecond)), Number(1, 2)))

rateMillisInverted(amount, rate) ==
    Floor(Mul(Div(rate, amount), Whole(MillisPerSecond)))

\* Math.floor(seconds * 1000) with seconds = amount / rate
rateMillis(amount, rate) ==
    Floor(Mul(Div(amount, rate), Whole(MillisPerSecond)))

\* Mutant of amountMillis: the amount taken as milliseconds.
amountMillisUnconverted(amount) == amount

\* const milli = amount * 1000
amountMillis(amount) == Mul(amount, Whole(MillisPerSecond))

\* The milliseconds of access bought: one branch or the other.
deltaMillis(req, amount) ==
    IF rateConfigured(req) THEN rateMillis(amount, req.boltwallConfig.rate)
    ELSE amountMillis(amount)

\* time = Date.now() + ...
timeOf(req, amount, now) == Add(Whole(now), deltaMillis(req, amount))

\* time += 200
addFreeTime(time) == Add(time, Whole(FreeTime))

\* new Caveat({ condition: 'expiration', value: time.toString() })
Caveat(time) == [condition |-> <<"expiration">>, value |-> toString(time)]

\* caveat.encode(): the encoder of lsat-js, an injective function of the
\* caveat it is given.
encode(caveat) == [encoded |-> caveat]

\* The locals and the result of one run of getTimeCaveat.
getTimeCaveat(req, invoice, now) ==
    LET amount == amountOf(invoice)
        time == addFreeTime(timeOf(req, amount, now))
        caveat == Caveat(time)
    IN  [amount |-> amount, time |-> time, caveat |-> caveat,
         outcome |-> [kind |-> "return", value |-> encode(caveat)]]

(***************************************************************************)
(* getTimedInvoiceDescription.                                             *)
(***************************************************************************)
\* Mutant of infoOf: the fallback taken when either field is missing.
infoOfEither(req, title, appName) ==
    IF ~Truthy(appName) \/ ~Truthy(title)
    THEN Interpolate(req.method) \o <<" ">> \o Interpolate(req.originalUrl)
    ELSE Interpolate(title) \o <<" in ">> \o Interpolate(appName)

\* The purchase info: lines 62 to 68, on the locals title and appName.
infoOf(req, title, appName) ==
    IF ~Truthy(appName) /\ ~Truthy(title)
    THEN Interpolate(req.method) \o <<" ">> \o Interpolate(req.originalUrl)
    ELSE LET appName2 == IF ~Truthy(appName)
                         THEN String(<<"[unknown application @ ">>
                                     \o Interpolate(req.ip) \o <<"]">>)
                         ELSE appName
             title2 == IF ~Truthy(title) THEN String(<<"[unknown data]">>)
                       ELSE title
         IN  Interpolate(title2) \o <<" in ">> \o Interpolate(appName2)

\* if (!time) time = amount
durationOf(time, amount) == IF ~Truthy(time) THEN amount ELSE time

\* `Payment to access ${info} for ${time} seconds`
describe(info, time) ==
    <<"Payment to access ">> \o info \o <<" for ">> \o Interpolate(time)
        \o <<" seconds">>

\* The locals and the result of one run of getTimedInvoiceDescription.
getTimedInvoiceDescription(req) ==
    LET info == infoOf(req, req.body.title, req.body.appName)
        time == durationOf(req.body.time, req.body.amount)
    IN  [info |-> info, duration |-> time,
         outcome |-> [kind |-> "return", value |-> describe(info, time)]]

\* TIME_CAVEAT_CONFIGS: the host accepts an invoice of at least minAmount.
accepted(amount) == LessEq(Whole(minAmount), amount)

(***************************************************************************)
(* The arguments the calls are made with.                                  *)
(***************************************************************************)
RECURSIVE SeqsUpTo(_, _)
SeqsUpTo(S, n) ==
    IF n = 0 THEN {<<>>}
    ELSE LET shorter == SeqsUpTo(S, n - 1)
         IN  shorter \cup {Append(s, c) : s \in shorter, c \in S}

AmountChars == {"0", "1", "2", "a", "-", " "}
StringAmounts == {String(s) : s \in SeqsUpTo(AmountChars, MaxLen)}
NumberAmounts == {Number(n, d) : n \in 0..MaxAmount, d \in {1, 2}}
Amounts == StringAmounts \cup NumberAmounts
Invoices == {[amount |-> a] : a \in Amounts}

Rates == {Whole(1), Whole(2), Whole(3), Number(1, 2), Whole(3000),
          Whole(0), Whole(-1), Whole(-3), Undefined}
Configs == {Undefined} \cup {[t |-> "object", rate |-> r] : r \in Rates}

Texts(name) == {Undefined, String(<<>>), String(<<name>>)}
Bodies == [time : {Undefined, Whole(0), Whole(60)},
           title : Texts("report"),
           appName : Texts("acme"),
           amount : {Undefined, Whole(5)}]

Request(config, body) ==
    [boltwallConfig |-> config, body |-> body, method |-> String(<<"GET">>),
     originalUrl |-> String(<<"/protected">>), ip |-> String(<<"127.0.0.1">>)]

EmptyBody == [time |-> Undefined, title |-> Undefined, appName |-> Undefined,
              amount |-> Undefined]
CaveatRequests == {Request(c, EmptyBody) : c \in Configs}
DescriptionRequests == {Request(Undefined, b) : b \in Bodies}

(***************************************************************************)
(* One call at a time: the host calls a function of the bundle, takes its   *)
(* result and only then makes its next call.  Each call is one action.     *)
(***************************************************************************)
NoCall == [fn |-> "none"]

Init ==
    /\ clock \in 0..MaxClock
    /\ last = NoCall
    /\ reqs = <<>>
    /\ invoices = <<>>
    /\ calls = <<>>

Tick ==
    /\ clock < MaxClock
    /\ clock' = clock + 1
    /\ UNCHANGED <<last, reqs, invoices, calls>>

CallGetTimeCaveat ==
    \E req \in CaveatRequests, invoice \in Invoices :
        /\ last = NoCall
        /\ last' = [fn |-> "getTimeCaveat", req |-> req, invoice |-> invoice,
                    now |-> clock, run |-> getTimeCaveat(req, invoice, clock)]
        /\ UNCHANGED <<clock, reqs, invoices, calls>>

CallGetTimedInvoiceDescription ==
    \E req \in DescriptionRequests :
        /\ last = NoCall
        /\ last' = [fn |-> "getTimedInvoiceDescription", req |-> req,
                    run |-> getTimedInvoiceDescription(req)]
        /\ UNCHANGED <<clock, reqs, invoices, calls>>

\* The host has used the result of the call.
TakeResult ==
    /\ last # NoCall
    /\ last' = NoCall
    /\ UNCHANGED <<clock, reqs, invoices, calls>>

Next ==
    \/ Tick
    \/ CallGetTimeCaveat
    \/ CallGetTimedInvoiceDescription
    \/ TakeResult

Spec == Init /\ [][Next]_vars

(***************************************************************************)
(* Concurrent invocations.  Each invocation runs the statements of its     *)
(* function in order, on locals of its own; the request and invoice        *)
(* objects and the clock are shared.  Statements of different invocations  *)
(* interleave in any order.                                                *)
(***************************************************************************)
ConcRequests ==
    <<Request(Undefined,
              [time |-> Undefined, title |-> Undefined,
               appName |-> String(<<"acme">>), amount |-> Whole(5)]),
      Request([t |-> "object", rate |-> Whole(3000)],
              [time |-> Whole(60), title |-> String(<<"report">>),
               appName |-> Undefined, amount |-> Whole(5)]),
      Request([t |-> "object", rate |-> Whole(2)],
              [time |-> Whole(0), title |-> String(<<>>),
               appName |-> Undefined, amount |-> Whole(5)])>>

ConcInvoices == <<[amount |-> Whole(1)], [amount |-> String(<<"2">>)]>>

IdleCall ==
    [fn |-> "none", pc |-> "idle", req |-> 0, invoice |-> 0,
     entryReq |-> Undefined, entryInvoice |-> Undefined,
     amount |-> Undefined, time |-> Undefined, title |-> Undefined,
     appName |-> Undefined, info |-> <<>>, reads |-> 0, now |-> Undefined,
     outcome |-> Undefined]

InitConc ==
    /\ clock \in 0..MaxClock
    /\ last = NoCall
    /\ reqs = ConcRequests
    /\ invoices = ConcInvoices
    /\ calls = [i \in 1..NumCalls |-> IdleCall]

\* The host calls getTimeCaveat(req, invoice).
EnterGetTimeCaveat(i) ==
    /\ calls[i].pc = "idle"
    /\ \E r \in DOMAIN reqs, v \in DOMAIN invoices :
          calls' = [calls EXCEPT ![i] =
                       [IdleCall EXCEPT !.fn = "getTimeCaveat", !.pc = "amount",
                                        !.req = r, !.invoice = v,
                                        !.entryReq = reqs[r],
                                        !.entryInvoice = invoices[v]]]
    /\ UNCHANGED <<clock, last, reqs, invoices>>

\* Lines 25 to 28: const amount = ...
ReadAmount(i) ==
    /\ calls[i].pc = "amount"
    /\ calls' = [calls EXCEPT ![i].amount = amountOf(invoices[calls[i].invoice]),
                              ![i].pc = "time"]
    /\ UNCHANGED <<clock, last, reqs, invoices>>

\* Lines 30 to 42: time = Date.now() + ..., in one branch or the other.
ComputeTime(i) ==
    /\ calls[i].pc = "time"
    /\ calls' = [calls EXCEPT
                    ![i].time = timeOf(reqs[calls[i].req], calls[i].amount, clock),
                    ![i].now = Whole(clock),
                    ![i].reads = calls[i].reads + 1,
                    ![i].pc = "caveat"]
    /\ UNCHANGED <<clock, last, reqs, invoices>>

\* Lines 44 to 48: time += 200, the caveat, its encoding.
ReturnCaveat(i) ==
    /\ calls[i].pc = "caveat"
    /\ LET time == addFreeTime(calls[i].time)
       IN  calls' = [calls EXCEPT
                        ![i].time = time,
                        ![i].outcome = [kind |-> "return",
                                        value |-> encode(Caveat(time))],
                        ![i].pc = "done"]
    /\ UNCHANGED <<clock, last, reqs, invoices>>

\* The host calls getTimedInvoiceDescription(req).
EnterGetTimedInvoiceDescription(i) ==
    /\ calls[i].pc = "idle"
    /\ \E r \in DOMAIN reqs :
          calls' = [calls EXCEPT ![i] =
                       [IdleCall EXCEPT !.fn = "getTimedInvoiceDescription",
                                        !.pc = "body", !.req = r,
                                        !.entryReq = reqs[r]]]
    /\ UNCHANGED <<clock, last, reqs, invoices>>

\* Lines 59 and 60: the locals time, title, appName and amount.
Destructure(i) ==
    /\ calls[i].pc = "body"
    /\ LET body == reqs[calls[i].req].body
       IN  calls' = [calls EXCEPT ![i].time = body.time,
                                  ![i].title = body.title,
                                  ![i].appName = body.appName,
                                  ![i].amount = body.amount,
                                  ![i].pc = "info"]
    /\ UNCHANGED <<clock, last, reqs, invoices>>

\* Mutant of ChooseInfo: the defaults assigned to req.body, not to the locals.
ChooseInfoWritingBody(i) ==
    /\ calls[i].pc = "info"
    /\ LET r == calls[i].req
           appName == IF ~Truthy(calls[i].appName)
                      THEN String(<<"[unknown application @ ">>
                                  \o Interpolate(reqs[r].ip) \o <<"]">>)
                      ELSE calls[i].appName
       IN  /\ calls' = [calls EXCEPT
                           ![i].info = infoOf(reqs[r], calls[i].title,
                                              calls[i].appName),
                           ![i].pc = "duration"]
           /\ reqs' = [reqs EXCEPT ![r].body.appName = appName]
    /\ UNCHANGED <<clock, last, invoices>>

\* Lines 62 to 68: info, with the defaults assigned to the locals.
ChooseInfo(i) ==
    /\ calls[i].pc = "info"
    /\ calls' = [calls EXCEPT
                    ![i].info = infoOf(reqs[calls[i].req], calls[i].title,
                                       calls[i].appName),
                    ![i].pc = "duration"]
    /\ UNCHANGED <<clock, last, reqs, invoices>>

\* Lines 69 to 71: if (!time) time = amount, and the returned string.
ReturnDescription(i) ==
    /\ calls[i].pc = "duration"
    /\ LET time == durationOf(calls[i].time, calls[i].amount)
       IN  calls' = [calls EXCEPT
                        ![i].time = time,
                        ![i].outcome = [kind |-> "return",
                                        value |-> describe(calls[i].info, time)],
                        ![i].pc = "done"]
    /\ UNCHANGED <<clock, last, reqs, invoices>>

NextConc ==
    \/ Tick
    \/ \E i \in 1..NumCalls :
          \/ EnterGetTimeCaveat(i)
          \/ ReadAmount(i)
          \/ ComputeTime(i)
          \/ ReturnCaveat(i)
          \/ EnterGetTimedInvoiceDescription(i)
          \/ Destructure(i)
          \/ ChooseInfo(i)
          \/ ReturnDescription(i)

SpecConc == InitConc /\ [][NextConc]_vars

(***************************************************************************)
(* The claims about a single call, under Spec.                             *)
(***************************************************************************)
CaveatCall == last.fn = "getTimeCaveat"
DescriptionCall == last.fn = "getTimedInvoiceDescription"

\* No rate is configured: there is no boltwallConfig, or it has no rate.
NoRateConfigured(req) ==
    \/ req.boltwallConfig = Undefined
    \/ req.boltwallConfig.rate = Undefined

\* The rate configured on the request is a number of the given sign.
RateIsPositive(req) ==
    /\ req.boltwallConfig # Undefined
    /\ req.boltwallConfig.rate.t = "number"
    /\ req.boltwallConfig.rate.n > 0

RateIsZeroOrNegative(req) ==
    /\ req.boltwallConfig # Undefined
    /\ req.boltwallConfig.rate.t = "number"
    /\ req.boltwallConfig.rate.n <= 0

\* The positive integer an amount is, given as a number or as its base-10
\* string; 0 when it is neither.
Denoted(x) ==
    CASE x.t = "number" -> IF x.d = 1 /\ x.n > 0 THEN x.n ELSE 0
      [] x.t = "string" ->
            IF Len(x.s) > 0 /\ \A i \in 1..Len(x.s) : IsDigit(x.s[i])
            THEN LET a == DigitsValue(x.s)
                 IN  IF a > 0 /\ x.s = NatToString(a) THEN a ELSE 0
            ELSE 0
      [] OTHER -> 0

\* C1: with no rate configured, for every positive integer amount a, given
\* as a number or as its base-10 string, the call returns a caveat whose
\* expiration is now + a*1000 + 200, now being the clock value it read.
C1_NoRateExpiration ==
    LET a == Denoted(last.invoice.amount)
    IN  (CaveatCall /\ NoRateConfigured(last.req) /\ a > 0) =>
            /\ last.run.outcome.kind = "return"
            /\ last.run.time = Whole(last.now + a * 1000 + 200)
            /\ last.run.caveat.value = NatToString(last.now + a * 1000 + 200)

C1_Witness ==
    /\ CaveatCall
    /\ NoRateConfigured(last.req)
    /\ last.invoice.amount = String(<<"1", "2">>)
    /\ last.now = 1
    /\ last.run.caveat.value = <<"1", "2", "2", "0", "1">>

C3_AtLeastBuffer ==
    (CaveatCall /\ accepted(last.run.amount)) =>
        /\ LessEq(Whole(last.now + 200), last.run.time)
        /\ ~LessEq(last.run.time, Whole(last.now))

\* A string that is a base-10 integer: an optional sign, then digits only.
IsBase10Integer(s) ==
    LET u == IF Len(s) > 0 /\ s[1] \in {"-", "+"} THEN Tail(s) ELSE s
    IN  Len(u) > 0 /\ \A i \in 1..Len(u) : IsDigit(u[i])

\* C4: when the invoice amount is a string that is not a valid base-10
\* integer, the call fails explicitly and no caveat is produced.
C4_MalformedAmountFails ==
    (/\ CaveatCall
     /\ last.invoice.amount.t = "string"
     /\ ~IsBase10Integer(last.invoice.amount.s)) =>
        last.run.outcome.kind = "throw"

\* C5: when the configured rate is zero or negative, the call fails
\* explicitly before the expiration is computed and no caveat is produced.
C5_DegenerateRateFails ==
    (CaveatCall /\ RateIsZeroOrNegative(last.req)) =>
        last.run.outcome.kind = "throw"

\* A string that is supplied and not empty.
HasText(x) == x.t = "string" /\ x.s # <<>>

\* The purchase info the description is to show.
ExpectedInfo(req) ==
    IF ~HasText(req.body.appName) /\ ~HasText(req.body.title)
    THEN req.method.s \o <<" ">> \o req.originalUrl.s
    ELSE (IF HasText(req.body.title) THEN req.body.title.s
          ELSE <<"[unknown data]">>)
         \o <<" in ">>
         \o (IF HasText(req.body.appName) THEN req.body.appName.s
             ELSE <<"[unknown application @ ">> \o req.ip.s \o <<"]">>)

\* C7: if neither appName nor title is present, info is "<method>
\* <originalUrl>"; otherwise info is "<title> in <appName>", an absent
\* appName replaced by "[unknown application @ <ip>]" and an absent title by
\* "[unknown data]"; the returned string is "Payment to access <info> for
\* <duration> seconds" and is never empty.  A field is present when it is
\* supplied with a non-empty string.
C7_Description ==
    DescriptionCall =>
        /\ last.run.info = ExpectedInfo(last.req)
        /\ last.run.outcome.kind = "return"
        /\ last.run.outcome.value =
              <<"Payment to access ">> \o ExpectedInfo(last.req) \o <<" for ">>
                  \o Interpolate(last.run.duration) \o <<" seconds">>
        /\ last.run.outcome.value # <<>>

C7_Witness ==
    /\ DescriptionCall
    /\ last.req.body.title = String(<<"report">>)
    /\ last.req.body.appName = Undefined
    /\ last.req.body.time = Whole(60)
    /\ last.run.outcome.value =
          <<"Payment to access ", "report", " in ", "[unknown application @ ",
            "127.0.0.1", "]", " for ", "6", "0", " seconds">>

\* C8: the displayed duration is the request's time whenever time is
\* present, a time of 0 included, and the request's amount only when time is
\* absent.
C8_DurationIsTimeWhenPresent ==
    DescriptionCall =>
        last.run.duration = IF last.req.body.time # Undefined
                            THEN last.req.body.time
                            ELSE last.req.body.amount

\* C9: every caveat handed to the encoder has condition exactly
\* "expiration", a value that is the decimal-digit string of the computed
\* expiration, and no other field.
C9_CaveatWireForm ==
    (CaveatCall /\ last.run.outcome.kind = "return") =>
        LET caveat == last.run.outcome.value.encoded
        IN  /\ DOMAIN caveat = {"condition", "value"}
            /\ caveat.condition = <<"expiration">>
            /\ Len(caveat.value) > 0
            /\ \A i \in 1..Len(caveat.value) : IsDigit(caveat.value[i])
            /\ last.run.time = Whole(DigitsValue(caveat.value))

(***************************************************************************)
(* The claims about concurrent invocations, under SpecConc.                *)
(***************************************************************************)
Done(i) == calls[i].pc = "done"
DoneCaveat(i) == Done(i) /\ calls[i].fn = "getTimeCaveat"

PositiveInteger(x) == x.t = "number" /\ x.d = 1 /\ x.n > 0

\* Invocations i and j ran with the same rate setting, absent or positive,
\* read the same clock value, and i's amount is the smaller of two positive
\* integers.
Comparable(i, j) ==
    /\ DoneCaveat(i) /\ DoneCaveat(j)
    /\ calls[i].entryReq.boltwallConfig = calls[j].entryReq.boltwallConfig
    /\ NoRateConfigured(calls[i].entryReq) \/ RateIsPositive(calls[i].entryReq)
    /\ calls[i].now = calls[j].now
    /\ PositiveInteger(calls[i].amount) /\ PositiveInteger(calls[j].amount)
    /\ calls[i].amount.n < calls[j].amount.n

\* C6 as stated: for a fixed rate setting and the same clock value, the
\* smaller of two positive integer amounts gives the strictly smaller
\* expiration.
C6_StrictlyMonotone ==
    \A i, j \in 1..NumCalls :
        Comparable(i, j) => Less(calls[i].time, calls[j].time)

\* C6 as amended: the smaller amount never gives the larger expiration, and
\* gives the strictly smaller one when no rate is configured.
C6_Monotone ==
    \A i, j \in 1..NumCalls :
        Comparable(i, j) =>
            /\ LessEq(calls[i].time, calls[j].time)
            /\ NoRateConfigured(calls[i].entryReq) =>
                   Less(calls[i].time, calls[j].time)

C6_Witness ==
    \E i, j \in 1..NumCalls :
        /\ Comparable(i, j)
        /\ RateIsPositive(calls[i].entryReq)
        /\ calls[i].time = calls[j].time

\* What invocation i returns when run alone on the arguments it was
\* called with and the clock value it read.
Alone(i) ==
    IF calls[i].fn = "getTimeCaveat"
    THEN getTimeCaveat(calls[i].entryReq, calls[i].entryInvoice,
                       calls[i].now.n).outcome
    ELSE getTimedInvoiceDescription(calls[i].entryReq).outcome

\* C10: in any interleaving each invocation reads the clock at most once,
\* writes no shared state and leaves its request and invoice as they were,
\* and returns what it would return alone from its own arguments and its
\* own clock read.
C10_Independent ==
    /\ reqs = ConcRequests
    /\ invoices = ConcInvoices
    /\ \A i \in 1..NumCalls :
          /\ calls[i].reads <= 1
          /\ Done(i) =>
                /\ reqs[calls[i].req] = calls[i].entryReq
                /\ DoneCaveat(i) =>
                      /\ invoices[calls[i].invoice] = calls[i].entryInvoice
                      /\ calls[i].reads = 1
                /\ calls[i].outcome = Alone(i)

C10_Witness ==
    \E i, j \in 1..NumCalls :
        /\ i # j
        /\ DoneCaveat(i)
        /\ Done(j) /\ calls[j].fn = "getTimedInvoiceDescription"
        /\ calls[i].req = calls[j].req
        /\ calls[i].now.n < clock
        /\ calls[j].appName = Undefined

=============================================================================
